---------------------------- MODULE Spec2Model ----------------------------
(***************************************************************************)
(* Model of imgurdownloader (src/imgurdownloader/__init__.py): the         *)
(* single-threaded task Processor, download_album, save_image, and the     *)
(* URL scanner find_albums / get_album_id.                                 *)
(*                                                                         *)
(* Python str values are modelled as sequences of one-character strings,   *)
(* so that the scanner, the resolver and the file naming are computed the  *)
(* way the code computes them.  Python None is the value None below.       *)
(***************************************************************************)
EXTENDS Integers, Sequences, FiniteSets, TLC

(* ------------------------------ bounds -------------------------------- *)
\* Longest event log a run may produce; every logging step is guarded by it.
MaxLog == 80

\* Longest task queue a run may hold; every put is guarded by it.
MaxQueue == 8

(* --------------------------- string literals -------------------------- *)
None == <<"None">>

S_http ==
    <<"h","t","t","p">>
S_scheme_sep ==
    <<":","/","/">>
S_imgur ==
    <<"i","m","g","u","r",".","c","o","m">>
S_gallery ==
    <<"/","g","a","l","l","e","r","y","/">>
S_a ==
    <<"/","a","/">>
S_r ==
    <<"/","r","/">>
S_jpeg ==
    <<"j","p","e","g">>
S_jpg ==
    <<"j","p","g">>
S_gifv ==
    <<"g","i","f","v">>
S_mp4 ==
    <<"m","p","4">>
S_webm ==
    <<"w","e","b","m">>
S_ogv ==
    <<"o","g","v">>
S_ogg ==
    <<"o","g","g">>
S_default_title ==
    <<"U","n","k","n","o","w","n"," ","A","r","t","i","s","t","s"," ","-"," ","U","n","t","i","t","l","e","d"," ","A","l","b","u","m">>
S_album_metadata_txt ==
    <<"a","l","b","u","m","-","m","e","t","a","d","a","t","a",".","t","x","t">>
S_index_xml ==
    <<"i","n","d","e","x",".","x","m","l">>
S_archive_xsl ==
    <<"a","r","c","h","i","v","e",".","x","s","l">>
S_txt ==
    <<"t","x","t">>
U_empty ==
    <<>>
U_foreign ==
    <<"h","t","t","p","s",":","/","/","e","x","a","m","p","l","e",".","c","o","m","/","x">>
U_gallery ==
    <<"h","t","t","p","s",":","/","/","i","m","g","u","r",".","c","o","m","/","g","a","l","l","e","r","y","/","a","b","c","1","2","3">>
U_album ==
    <<"h","t","t","p","s",":","/","/","i","m","g","u","r",".","c","o","m","/","a","/","B">>
Id_abc123 ==
    <<"a","b","c","1","2","3">>
Id_B ==
    <<"B">>
Id_C ==
    <<"C">>
Id_D ==
    <<"D">>
Id_E ==
    <<"E">>
Id_zzz ==
    <<"z","z","z">>
T_one ==
    <<"O","n","e">>
T_three ==
    <<"T","h","r","e","e">>
T_five ==
    <<"F","i","v","e">>
T_clip ==
    <<"C","l","i","p">>
D_two_albums ==
    <<"h","t","t","p","s",":","/","/","i","m","g","u","r",".","c","o","m","/","a","/","B"," ","h","t","t","p","s",":","/","/","i","m","g","u","r",".","c","o","m","/","a","/","C">>
D_example ==
    <<"s","e","e"," ","h","t","t","p","s",":","/","/","i","m","g","u","r",".","c","o","m","/","a","/","a","b","c","1","2","3"," ","a","n","d"," ","h","t","t","p","s",":","/","/","e","x","a","m","p","l","e",".","c","o","m","/","x">>
D_back ==
    <<"h","t","t","p","s",":","/","/","i","m","g","u","r",".","c","o","m","/","g","a","l","l","e","r","y","/","a","b","c","1","2","3">>
D_missing ==
    <<"h","t","t","p","s",":","/","/","i","m","g","u","r",".","c","o","m","/","a","/","D">>
D_same_twice ==
    <<"h","t","t","p","s",":","/","/","i","m","g","u","r",".","c","o","m","/","a","/","C"," ","h","t","t","p","s",":","/","/","i","m","g","u","r",".","c","o","m","/","g","a","l","l","e","r","y","/","C">>
D_valid ==
    <<"h","t","t","p","s",":","/","/","i","m","g","u","r",".","c","o","m","/","a","/","E">>
D_lookalike ==
    <<"h","t","t","p","s",":","/","/","i","m","g","u","r",".","c","o","m","/","r","/","p","i","c","s","/","D"," ","h","t","t","p","s",":","/","/","e","x","a","m","p","l","e",".","c","o","m","/","i","m","g","u","r",".","c","o","m","/","a","/","z","z","z">>
D_plain ==
    <<"n","o"," ","l","i","n","k","s"," ","h","e","r","e">>
L_p1 ==
    <<"h","t","t","p","s",":","/","/","i",".","i","m","g","u","r",".","c","o","m","/","p","1",".","j","p","e","g">>
L_p2 ==
    <<"h","t","t","p","s",":","/","/","i",".","i","m","g","u","r",".","c","o","m","/","p","2",".","m","p","4">>
L_b1 ==
    <<"h","t","t","p","s",":","/","/","i",".","i","m","g","u","r",".","c","o","m","/","b","1",".","p","n","g">>
L_b2 ==
    <<"h","t","t","p","s",":","/","/","i",".","i","m","g","u","r",".","c","o","m","/","b","2">>
L_c1 ==
    <<"h","t","t","p","s",":","/","/","i",".","i","m","g","u","r",".","c","o","m","/","c","1",".","g","i","f","v">>
L_c2 ==
    <<"h","t","t","p","s",":","/","/","i",".","i","m","g","u","r",".","c","o","m","/","c","2",".","j","p","g">>
M_jpeg ==
    <<"i","m","a","g","e","/","j","p","e","g">>
M_png ==
    <<"i","m","a","g","e","/","p","n","g">>
M_mp4 ==
    <<"v","i","d","e","o","/","m","p","4">>
M_gif ==
    <<"i","m","a","g","e","/","g","i","f">>
I_p1 ==
    <<"p","1">>
I_p2 ==
    <<"p","2">>
I_b1 ==
    <<"b","1">>
I_b2 ==
    <<"b","2">>
I_c1 ==
    <<"c","1">>
I_c2 ==
    <<"c","2">>
S_base ==
    <<"o","u","t">>

(* ------------------------- Python str helpers ------------------------- *)
\* Truthiness of a str-or-None value: None and '' are falsy.
Truthy(v) == v # None /\ v # <<>>

\* s[i..] starts with p
StartsAt(s, i, p) ==
    /\ i >= 1
    /\ i + Len(p) - 1 <= Len(s)
    /\ SubSeq(s, i, i + Len(p) - 1) = p

\* lowest index >= from where sep occurs in s, 0 when there is none (str.find)
Find(s, sep, from) ==
    LET hits == {i \in from..(Len(s) - Len(sep) + 1) : StartsAt(s, i, sep)}
    IN  IF hits = {} THEN 0 ELSE CHOOSE i \in hits : \A j \in hits : i <= j

\* sep in s
Contains(s, sep) == Find(s, sep, 1) > 0

\* s.split(sep)[1], for s that contains sep
SplitSecond(s, sep) ==
    LET first == Find(s, sep, 1)
        begin == first + Len(sep)
        next  == Find(s, sep, begin)
    IN  IF next = 0 THEN SubSeq(s, begin, Len(s))
        ELSE SubSeq(s, begin, next - 1)

\* s.split(c)[-1] for a one-character separator c
SplitLast(s, c) ==
    LET hits == {i \in 1..Len(s) : s[i] = c[1]}
    IN  IF hits = {} THEN s
        ELSE SubSeq(s, (CHOOSE i \in hits : \A j \in hits : i >= j) + 1, Len(s))

(* ----------------------------- URL scanner ---------------------------- *)
Letters ==
    {"a","b","c","d","e","f","g","h","i","j","k","l","m","n","o","p","q","r",
     "s","t","u","v","w","x","y","z",
     "A","B","C","D","E","F","G","H","I","J","K","L","M","N","O","P","Q","R",
     "S","T","U","V","W","X","Y","Z"}

Digits ==
    {"0","1","2","3","4","5","6","7","8","9"}

\* the characters of the range $-_ that are neither letters nor digits
DollarToUnderscore ==
    {"$","%","&","'","(",")","*","+",",","-",".","/",":",";","<","=",">",
     "?","@","[","\\","]","^","_"}

\* the character class of URLS_REGEX; the %XX alternative adds nothing,
\* its characters are in the class already
UrlChars == Letters \cup Digits \cup DollarToUnderscore \cup {"!"}

\* last index of the maximal run of UrlChars starting at i (i - 1 when empty)
RECURSIVE RunEnd(_, _)
RunEnd(s, i) ==
    IF i <= Len(s) /\ s[i] \in UrlChars THEN RunEnd(s, i + 1) ELSE i - 1

\* last index of the match of URLS_REGEX at position i, 0 when none
MatchEnd(s, i) ==
    IF ~StartsAt(s, i, S_http) THEN 0
    ELSE LET afterS == IF StartsAt(s, i + 4, <<"s">>) /\ StartsAt(s, i + 5, S_scheme_sep)
                       THEN i + 5 ELSE i + 4
         IN  IF ~StartsAt(s, afterS, S_scheme_sep) THEN 0
             ELSE LET e == RunEnd(s, afterS + 3)
                  IN  IF e >= afterS + 3 THEN e ELSE 0

\* re.findall(URLS_REGEX, text): the non-overlapping matches, left to right
RECURSIVE FindAllFrom(_, _)
FindAllFrom(s, i) ==
    IF i > Len(s) THEN << >>
    ELSE LET e == MatchEnd(s, i)
         IN  IF e > 0 THEN <<SubSeq(s, i, e)>> \o FindAllFrom(s, e + 1)
             ELSE FindAllFrom(s, i + 1)

URLS_REGEX(text) == FindAllFrom(text, 1)

Range(f) == {f[i] : i \in DOMAIN f}

\* the orders in which a Python set of str may be iterated: all of them
Orders(S) ==
    {p \in [1..Cardinality(S) -> S] : Range(p) = S}

\* filter(None, xs) on a list of str-or-None
RECURSIVE FilterTruthy(_)
FilterTruthy(xs) ==
    IF xs = << >> THEN << >>
    ELSE IF Truthy(Head(xs)) THEN <<Head(xs)>> \o FilterTruthy(Tail(xs))
    ELSE FilterTruthy(Tail(xs))

\* get_album_id(url): the album id of an url, None when no shape matches
get_album_id(url) ==
    IF ~Contains(url, S_imgur) THEN None
    ELSE IF Contains(url, S_gallery) THEN SplitSecond(url, S_gallery)
    ELSE IF Contains(url, S_a) THEN SplitSecond(url, S_a)
    ELSE IF Contains(url, S_r) THEN SplitLast(url, <<"/">>)
    ELSE None

\* find_albums(text): every list the call can return; the urls are put in a
\* set first, and the list follows the set's iteration order
find_albums(text) ==
    LET urls == Range(URLS_REGEX(text))
    IN  {FilterTruthy([i \in 1..Cardinality(urls) |-> get_album_id(p[i])]) :
            p \in Orders(urls)}

(* ------------------------- the remote albums -------------------------- *)
\* One element of an album's image listing (the fields save_image reads).
Image(id, link, title, description, type) ==
    [id |-> id, link |-> link, title |-> title,
     description |-> description, type |-> type]

\* The albums the API knows; every other identifier gets a failure envelope.
ExistingIds == {Id_abc123, Id_B, Id_C, Id_E}

RemoteMeta(a) ==
    CASE a = Id_abc123 -> [title |-> T_one,   description |-> D_two_albums]
      [] a = Id_B      -> [title |-> << >>,   description |-> D_back]
      [] a = Id_C      -> [title |-> T_three, description |-> None]
      [] a = Id_E      -> [title |-> T_five,  description |-> D_plain]

RemoteImages(a) ==
    CASE a = Id_abc123 -> << Image(I_p1, L_p1, None, D_example, M_png),
                             Image(I_p2, L_p2, T_clip, None, M_mp4) >>
      [] a = Id_B      -> << Image(I_b1, L_b1, None, D_missing, M_png),
                             Image(I_b2, L_b2, None, D_same_twice, M_jpeg) >>
      [] a = Id_C      -> << Image(I_c1, L_c1, None, D_valid, M_gif),
                             Image(I_c2, L_c2, None, D_lookalike, M_jpeg) >>
      [] a = Id_E      -> << >>

\* The texts a run can hand to find_albums: the descriptions of the remote
\* albums and of their images, and '' for an album without description.
Descriptions ==
    {<< >>}
    \cup {RemoteMeta(a).description : a \in ExistingIds}
    \cup UNION {{RemoteImages(a)[i].description : i \in 1..Len(RemoteImages(a))} :
                a \in ExistingIds}

\* find_albums over those texts, computed once
FoundIn == [text \in Descriptions \ {None} |-> find_albums(text)]

\* The url arguments the command line is run with.
SeedUrls == {U_empty, U_foreign, U_gallery, U_album}

\* The envelope of an API answer: its status and its success flag.
Envelope(st, success) == <<st, success>>

OkEnvelope == Envelope("200", "true")

\* The failure envelopes the API sends.
FailureEnvelopes == {Envelope("404", "false"), Envelope("200", "false")}

\* requests.get() or response.json() raising instead of answering
TransportError == <<"error">>

\* What a request to an endpoint of album a can come back with: a success
\* envelope (only for an album that exists), a failure envelope, or a
\* transport error.
Answers(a) ==
    (IF a \in ExistingIds THEN {OkEnvelope} ELSE {})
    \cup FailureEnvelopes \cup {TransportError}

\* res['data'] of an answer to the album endpoint
MetaData(a, res) ==
    IF a \in ExistingIds /\ res = OkEnvelope THEN RemoteMeta(a)
    ELSE [title |-> None, description |-> None]

\* res['data'] of an answer to the images endpoint
ImagesData(a, res) ==
    IF a \in ExistingIds /\ res = OkEnvelope THEN RemoteImages(a) ELSE << >>


(* --------------------------- file naming ------------------------------ *)
Digit(n) ==
    CASE n = 0 -> "0" [] n = 1 -> "1" [] n = 2 -> "2" [] n = 3 -> "3"
      [] n = 4 -> "4" [] n = 5 -> "5" [] n = 6 -> "6" [] n = 7 -> "7"
      [] n = 8 -> "8" [] n = 9 -> "9"

\* str(n) for 0 <= n < 10^9
Decimal(n) ==
    LET k == CHOOSE d \in 1..9 : n < 10^d /\ (d = 1 \/ n >= 10^(d - 1))
    IN  [i \in 1..k |-> Digit((n \div 10^(k - i)) % 10)]

\* s padded with zeros on the left to the given width
ZeroPad(s, width) ==
    IF Len(s) >= width THEN s ELSE [i \in 1..(width - Len(s)) |-> "0"] \o s

\* variant: positions are counted from one
Format04d_OneBased(idx) == ZeroPad(Decimal(idx + 1), 4)

\* "%04d" % idx
Format04d(idx) == ZeroPad(Decimal(idx), 4)

\* UniqueSlugify()(title): the slug library is an outside collaborator; the
\* slug is an opaque value determined by the title
Slug(title) == <<"slug">> \o title

\* os.path.join(a, b)
PathJoin(a, b) == a \o <<"/">> \o b

\* the suffix save_image gives the file of an image entry
Suffix(info) ==
    LET fromUrl  == SplitLast(SplitLast(info.link, <<"/">>), <<".">>)
        fallback == IF fromUrl = << >> \/ ~Contains(fromUrl, <<".">>)
                    THEN SplitLast(info.type, <<"/">>)
                    ELSE fromUrl
    IN  IF fallback = S_jpeg THEN S_jpg ELSE fallback

\* every image entry a listing can hold
Listed == UNION {Range(RemoteImages(a)) : a \in ExistingIds}

\* Suffix over those entries, computed once
SuffixOf == [info \in Listed |-> Suffix(info)]

\* title = info['title'] or info['id']
ImageTitle(info) == IF Truthy(info.title) THEN info.title ELSE info.id

\* "%04d-%s.%s" % (idx, slug, suffix)
Filename(info, idx) ==
    Format04d(idx) \o <<"-">> \o Slug(ImageTitle(info)) \o <<".">> \o SuffixOf[info]

\* '%04d-%s.txt' % (idx, slug)
SidecarName(info, idx) ==
    Format04d(idx) \o <<"-">> \o Slug(ImageTitle(info)) \o <<".">> \o S_txt

\* the key under which save_image returns the file name
Typ(suffix) ==
    IF suffix = S_gifv THEN "gifv"
    ELSE IF suffix \in {S_mp4, S_webm, S_ogv, S_ogg} THEN "vid"
    ELSE "img"

\* the dict save_image returns
Entry(info, idx) ==
    [typ |-> Typ(SuffixOf[info]), filename |-> Filename(info, idx),
     title |-> info.title, id |-> info.id, desc |-> info.description]

(* ------------------------------ state --------------------------------- *)
VARIABLES
    G,        \* the settings singleton: find_albums, xml, base, url
    seen,     \* list of the album ids already taken up
    queue,    \* the tasks held by processor, oldest first
    status,   \* of Processor.start: "running", "returned" or "raised"
    exc,      \* the exception that ended the run, "" when none
    pc,       \* position of the running task, "idle" between tasks
    cur,      \* the locals of the running download_album call
    files,    \* the paths that exist under the base directory
    log,      \* the calls, requests and writes made so far, in order
    prior     \* in a second run of the program: what the first run did

vars == <<G, seen, queue, status, exc, pc, cur, files, log, prior>>

Event(op, id, arg) == [op |-> op, id |-> id, arg |-> arg]

\* A task is a closure calling download_album; url and album are the
\* arguments the call is made with when the task runs, madeFor is the
\* identifier the loop held when the closure was created.
Task(url, album, madeFor) == [url |-> url, album |-> album, madeFor |-> madeFor]

NoCall ==
    [url |-> None, album |-> None, madeFor |-> None, key |-> None,
     meta |-> [title |-> None, description |-> None], album_path |-> None, data |-> << >>, idx |-> 0,
     entries |-> << >>]

\* variant: the membership test never finds the album
InSeen_Never(album, s) == FALSE

\* album in seen
InSeen(album, s) == \E i \in 1..Len(s) : s[i] = album

\* variant: the album is not recorded
AppendSeen_Forgets(s, album) == s

\* seen.append(album)
AppendSeen(s, album) == Append(s, album)

\* The closures put for the identifiers found in one description.  Each
\* closure reads the enclosing function's variable album when it runs, and
\* by then the loop has left the last identifier in it.
Closures(found) ==
    [i \in 1..Len(found) |-> Task(None, found[Len(found)], found[i])]

PutEvents(found) ==
    [i \in 1..Len(found) |-> Event("put", found[i], found[Len(found)])]

\* the value the loop variable album is left with
AfterLoop(album, found) ==
    IF found = << >> THEN album ELSE found[Len(found)]

\* nothing is kept before the first run has ended
NoPrior == [phase |-> 1, crawl |-> << >>, seen |-> << >>, status |-> ""]

(* ------------------------------- Init --------------------------------- *)
\* downloader(): fills G, puts the task for the url, then starts processor.
Init ==
    /\ G \in [find_albums : BOOLEAN, xml : BOOLEAN, base : {S_base}, url : SeedUrls]
    /\ seen = << >>
    /\ queue = << Task(G.url, None, get_album_id(G.url)) >>
    /\ status = "running"
    /\ exc = ""
    /\ pc = "idle"
    /\ cur = NoCall
    /\ files = {}
    /\ log = << >>
    /\ prior = NoPrior

Running == status = "running"

(* -------------------------- Processor.start --------------------------- *)
\* variant: the task is read but stays in the queue
AfterGet_Peek(q) == q

\* the queue after self.get() took the oldest task out
AfterGet(q) == Tail(q)

\* task = self.get(); task()
StartGet ==
    /\ Running /\ pc = "idle" /\ queue # << >>
    /\ LET task == Head(queue)
       IN  /\ cur' = [NoCall EXCEPT !.url = task.url, !.album = task.album,
                                    !.madeFor = task.madeFor]
           /\ log' = Append(log, Event("call", task.album, task.madeFor))
    /\ Len(log') <= MaxLog
    /\ queue' = AfterGet(queue)
    /\ pc' = "entry"
    /\ UNCHANGED <<prior, G, seen, status, exc, files>>

\* the loop ends when the queue is empty
StartReturn ==
    /\ Running /\ pc = "idle" /\ queue = << >>
    /\ status' = "returned"
    /\ UNCHANGED <<prior, G, seen, queue, exc, pc, cur, files, log>>

(* --------------------------- download_album --------------------------- *)
\* variant: only None counts as missing, the empty string does not
MissingArguments_NoneOnly(url, album) == url = None /\ album = None

\* not (url or album)
MissingArguments(url, album) == ~(Truthy(url) \/ Truthy(album))

\* if not (url or album): raise ValueError
EntryRaise ==
    /\ Running /\ pc = "entry"
    /\ MissingArguments(cur.url, cur.album)
    /\ status' = "raised"
    /\ exc' = "ValueError"
    /\ UNCHANGED <<prior, G, seen, queue, pc, cur, files, log>>

\* the album id the call goes on with
Resolved(c) == IF Truthy(c.url) THEN get_album_id(c.url) ELSE c.album

\* if album in seen: return
EntrySeen ==
    /\ Running /\ pc = "entry"
    /\ ~MissingArguments(cur.url, cur.album)
    /\ InSeen(Resolved(cur), seen)
    /\ pc' = "idle"
    /\ cur' = NoCall
    /\ UNCHANGED <<prior, G, seen, queue, status, exc, files, log>>

\* else: seen.append(album)
EntryNew ==
    /\ Running /\ pc = "entry"
    /\ ~MissingArguments(cur.url, cur.album)
    /\ ~InSeen(Resolved(cur), seen)
    /\ seen' = AppendSeen(seen, Resolved(cur))
    /\ cur' = [cur EXCEPT !.album = Resolved(cur), !.key = Resolved(cur)]
    /\ log' = Append(log, Event("seen", Resolved(cur), << >>))
    /\ Len(log') <= MaxLog
    /\ pc' = "metadata"
    /\ UNCHANGED <<prior, G, queue, status, exc, files>>

\* variant: only the status is looked at, the success flag is not
Accepted_StatusOnly(res) == res[1] = "200"

\* not (res['status'] != 200 or not res['success'])
Accepted(res) == ~(res[1] # "200" \/ res[2] # "true")

\* meta = get_album_metadata(album), answered with an envelope that passes
MetadataOk ==
    /\ Running /\ pc = "metadata"
    /\ \E res \in Answers(cur.album) \ {TransportError} :
          /\ Accepted(res)
          /\ cur' = [cur EXCEPT !.meta = MetaData(cur.album, res)]
          /\ log' = Append(log, Event("metadata", cur.album, res))
    /\ Len(log') <= MaxLog
    /\ pc' = "prepare"
    /\ UNCHANGED <<prior, G, seen, queue, status, exc, files>>

\* get_album_metadata returns False: log the error and return
MetadataEnvelope ==
    /\ Running /\ pc = "metadata"
    /\ \E res \in Answers(cur.album) \ {TransportError} :
          /\ ~Accepted(res)
          /\ log' = Append(log, Event("metadata", cur.album, res))
    /\ Len(log') <= MaxLog
    /\ pc' = "idle"
    /\ cur' = NoCall
    /\ UNCHANGED <<prior, G, seen, queue, status, exc, files>>

\* request() or response.json() raises inside get_album_metadata; nothing
\* between there and Processor.start catches it
MetadataError ==
    /\ Running /\ pc = "metadata"
    /\ TransportError \in Answers(cur.album)
    /\ log' = Append(log, Event("metadata", cur.album, TransportError))
    /\ Len(log') <= MaxLog
    /\ status' = "raised"
    /\ exc' = "get_album_metadata"
    /\ UNCHANGED <<prior, G, seen, queue, pc, cur, files>>

\* meta['title'] after the default was applied
TitleOrDefault(meta) == IF Truthy(meta.title) THEN meta.title ELSE S_default_title

\* album_path = os.path.join(destination, sluger(meta['title']))
AlbumPath(base, meta) == PathJoin(base, Slug(TitleOrDefault(meta)))

\* variant: the description is dropped and '' is scanned
DescriptionOrEmpty_Blank(meta) == << >>

\* meta['description'] or ''
DescriptionOrEmpty(meta) == IF Truthy(meta.description) THEN meta.description ELSE << >>

\* variant: the test of the output mode is the wrong way round
WritesAlbumMetadata_Inverted(xml) == xml

\* the album-metadata.txt file is written when not G['xml']
WritesAlbumMetadata(xml) == ~xml

\* from the title default to the album-metadata.txt file: make the
\* directory, queue the albums of the description, write the text file
Prepare ==
    /\ Running /\ pc = "prepare"
    /\ LET path   == AlbumPath(G.base, cur.meta)
           txt    == PathJoin(path, S_album_metadata_txt)
           texts  == IF G.find_albums
                     THEN FoundIn[DescriptionOrEmpty(cur.meta)]
                     ELSE {<< >>}
       IN  \E found \in texts :
              /\ queue' = queue \o Closures(found)
              /\ cur' = [cur EXCEPT !.meta = [cur.meta EXCEPT !.title = TitleOrDefault(cur.meta)],
                                    !.album_path = path,
                                    !.album = AfterLoop(cur.album, found)]
              /\ files' = files \cup {path}
                            \cup (IF WritesAlbumMetadata(G.xml) THEN {txt} ELSE {})
              /\ log' = log \o <<Event("mkdir", cur.key, path)>> \o PutEvents(found)
                            \o (IF WritesAlbumMetadata(G.xml)
                                THEN <<Event("write", cur.key, txt)>> ELSE << >>)
    /\ Len(log') <= MaxLog
    /\ Len(queue') <= MaxQueue
    /\ pc' = "images"
    /\ UNCHANGED <<prior, G, seen, status, exc>>

\* the image listing request is answered with an envelope that passes; in
\* xml mode index.xml is opened and its head written
ImagesOk ==
    /\ Running /\ pc = "images"
    /\ \E res \in Answers(cur.album) \ {TransportError} :
          /\ Accepted(res)
          /\ LET doc == PathJoin(cur.album_path, S_index_xml)
             IN  /\ files' = files \cup (IF G.xml THEN {doc} ELSE {})
                 /\ log' = log \o <<Event("images", cur.album, res)>>
                               \o (IF G.xml THEN <<Event("write", cur.key, doc)>> ELSE << >>)
          /\ cur' = [cur EXCEPT !.data = ImagesData(cur.album, res), !.idx = 0]
    /\ Len(log') <= MaxLog
    /\ pc' = "save_image"
    /\ UNCHANGED <<prior, G, seen, queue, status, exc>>

\* the image listing request raises (caught: return False) or is answered
\* with an envelope that does not pass (return False)
ImagesFail ==
    /\ Running /\ pc = "images"
    /\ \E res \in Answers(cur.album) :
          /\ res = TransportError \/ ~Accepted(res)
          /\ log' = Append(log, Event("images", cur.album, res))
    /\ Len(log') <= MaxLog
    /\ pc' = "idle"
    /\ cur' = NoCall
    /\ UNCHANGED <<prior, G, seen, queue, status, exc, files>>

(* ----------------------------- save_image ----------------------------- *)
\* variant: the sidecar is written in both output modes
WritesSidecar_AnyMode(description, xml) == Truthy(description)

\* the sidecar text file is written for a description when not G['xml']
WritesSidecar(description, xml) == Truthy(description) /\ ~xml

\* variant: a description is scanned in the discrete output mode only
ScansDescription_DiscreteOnly(description, recursive) ==
    Truthy(description) /\ recursive /\ ~G.xml

\* variant: a description is scanned whatever the recursive flag says
ScansDescription_Always(description, recursive) == Truthy(description)

\* the description is scanned for albums when G['find-albums']
ScansDescription(description, recursive) == Truthy(description) /\ recursive

\* the position enumerate() gives the entry after the one at idx
NextIdx(idx) == idx + 1

\* one round of the loop over res['data']: save_image(info, album_path, idx)
\* with the download completing
SaveImageOk ==
    /\ Running /\ pc = "save_image" /\ cur.idx < Len(cur.data)
    /\ LET info     == cur.data[cur.idx + 1]
           filepath == PathJoin(cur.album_path, Filename(info, cur.idx))
           txtpath  == PathJoin(cur.album_path, SidecarName(info, cur.idx))
           sidecar  == WritesSidecar(info.description, G.xml)
           texts    == IF ScansDescription(info.description, G.find_albums)
                       THEN FoundIn[info.description]
                       ELSE {<< >>}
       IN  \E found \in texts :
              /\ queue' = queue \o Closures(found)
              /\ files' = files \cup {filepath} \cup (IF sidecar THEN {txtpath} ELSE {})
              /\ log' = log \o <<Event("save_image", info.id, Format04d(cur.idx)),
                                 Event("download", info.id, <<"ok">>),
                                 Event("write", cur.key, filepath)>>
                            \o (IF sidecar THEN <<Event("write", cur.key, txtpath)>> ELSE << >>)
                            \o PutEvents(found)
              /\ cur' = [cur EXCEPT !.entries = Append(@, Entry(info, cur.idx)),
                                    !.idx = NextIdx(@)]
    /\ Len(log') <= MaxLog
    /\ Len(queue') <= MaxQueue
    /\ UNCHANGED <<prior, G, seen, status, exc, pc>>

\* variant: the exception is swallowed and the run goes on
AfterDownloadError_Swallowed(st) == st

\* the state of Processor.start after download() raised inside save_image:
\* no try statement is around the call, in save_image, in download_album or
\* in start, so the exception ends the run
AfterDownloadError(st) == "raised"

\* save_image with download() raising, before or after the file was opened
SaveImageError ==
    /\ Running /\ pc = "save_image" /\ cur.idx < Len(cur.data)
    /\ LET info     == cur.data[cur.idx + 1]
           filepath == PathJoin(cur.album_path, Filename(info, cur.idx))
       IN  /\ \E opened \in BOOLEAN :
                 files' = files \cup (IF opened THEN {filepath} ELSE {})
           /\ log' = log \o <<Event("save_image", info.id, Format04d(cur.idx)),
                              Event("download", info.id, <<"error">>)>>
    /\ Len(log') <= MaxLog
    /\ status' = AfterDownloadError(status)
    /\ exc' = "download"
    /\ UNCHANGED <<prior, G, seen, queue, pc, cur>>

\* the loop is over: in xml mode close the document and write archive.xsl;
\* download_album returns
Finish ==
    /\ Running /\ pc = "save_image" /\ cur.idx >= Len(cur.data)
    /\ LET style == PathJoin(cur.album_path, S_archive_xsl)
       IN  /\ files' = files \cup (IF G.xml THEN {style} ELSE {})
           /\ log' = log \o (IF G.xml THEN <<Event("write", cur.key, style)>> ELSE << >>)
                         \o <<Event("done", cur.key, << >>)>>
    /\ Len(log') <= MaxLog
    /\ pc' = "idle"
    /\ cur' = NoCall
    /\ UNCHANGED <<prior, G, seen, queue, status, exc>>

Next ==
    \/ StartGet
    \/ StartReturn
    \/ EntryRaise
    \/ EntrySeen
    \/ EntryNew
    \/ MetadataOk
    \/ MetadataEnvelope
    \/ MetadataError
    \/ Prepare
    \/ ImagesOk
    \/ ImagesFail
    \/ SaveImageOk
    \/ SaveImageError
    \/ Finish

Spec == Init /\ [][Next]_vars

\* Processor.start runs on one thread and never waits: a step that can be
\* taken is taken
FairSpec == Spec /\ WF_vars(Next)

(* ------------------------ the program run twice ----------------------- *)
\* the events of the crawl: tasks enqueued, identifiers recorded in seen,
\* and the metadata, image-listing and download requests with their outcomes
IsCrawl(e) == e.op \in {"put", "seen", "metadata", "images", "download"}

Crawl(l) == SelectSeq(l, IsCrawl)

\* The difference at position i of the crawl events new, which follow the
\* first k0 crawl events, from the first run's is the environment's doing:
\* the same request with another outcome, or the same identifiers enqueued
\* in another order of the set.
EnvOnly(new, k0, i) ==
    /\ k0 + i <= Len(prior.crawl)
    /\ prior.crawl[k0 + i].op = new[i].op
    /\ IF new[i].op = "put"
       THEN LET pos == {j \in 1..Len(new) : new[j].op = "put"}
            IN  /\ \A j \in pos : /\ k0 + j <= Len(prior.crawl)
                                  /\ prior.crawl[k0 + j].op = "put"
                /\ \A j \in pos :
                      Cardinality({m \in pos : new[m].id = new[j].id})
                        = Cardinality({m \in pos : prior.crawl[k0 + m].id = new[j].id})
       ELSE prior.crawl[k0 + i].id = new[i].id

\* In the second run the environment answers as it did in the first run:
\* a request made again has the outcome it had, a set met again is iterated
\* in the order it was.  What the program itself does is not restricted.
Follows ==
    prior.phase = 2 =>
        LET new   == Crawl(SubSeq(log', Len(log) + 1, Len(log')))
            k0    == Len(Crawl(log))
            diffs == {i \in 1..Len(new) :
                         \/ k0 + i > Len(prior.crawl)
                         \/ new[i] # prior.crawl[k0 + i]}
        IN  \/ diffs = {}
            \/ ~EnvOnly(new, k0, CHOOSE i \in diffs : \A j \in diffs : i <= j)

\* downloader() is called again, in a fresh interpreter, with the same
\* arguments but the other value of xml
Restart ==
    /\ prior.phase = 1 /\ ~Running
    /\ prior' = [phase |-> 2, crawl |-> Crawl(log), seen |-> seen, status |-> status]
    /\ G' = [G EXCEPT !.xml = ~G.xml]
    /\ seen' = << >>
    /\ queue' = << Task(G.url, None, get_album_id(G.url)) >>
    /\ status' = "running"
    /\ exc' = ""
    /\ pc' = "idle"
    /\ cur' = NoCall
    /\ files' = {}
    /\ log' = << >>

TwinNext ==
    \/ Next /\ Follows
    \/ Restart

TwinSpec == Init /\ [][TwinNext]_vars

(* ---------------------- reading the event log ------------------------- *)
Events(op) == {i \in 1..Len(log) : log[i].op = op}

Last == log[Len(log)]

\* os.path.basename(path)
Basename(path) == SplitLast(path, <<"/">>)

\* the events of kind op with identifier id
EventsFor(op, id) == {i \in Events(op) : log[i].id = id}

Min(S) == CHOOSE x \in S : \A y \in S : x <= y

(* ------------------------------- C1 ----------------------------------- *)
\* C1: Dedup.  In every run get_album_metadata is invoked at most once for
\* any one album identifier, however many tasks were queued for it.
C1_Dedup ==
    \A i, j \in Events("metadata") : log[i].id = log[j].id => i = j

\* Two tasks for the same identifier were executed to the end of the run,
\* and one metadata request was made for it.
C1_Witness ==
    /\ status = "returned"
    /\ \E i, j \in Events("call") :
          /\ i < j
          /\ log[i].id # None
          /\ log[i].id = log[j].id
          /\ Cardinality(EventsFor("metadata", log[i].id)) = 1

(* ------------------------------- C2 ----------------------------------- *)
\* C2: Termination.  In a run where no fetch and no download raises,
\* Processor.start eventually finds the queue empty and returns, also when
\* albums reference each other in a cycle.
C2_Termination ==
    [](status # "raised") => <>(status = "returned" /\ queue = << >>)

\* The run returned after album abc123 queued B and album B queued abc123.
C2_Witness ==
    /\ status = "returned"
    /\ queue = << >>
    /\ InSeen(Id_abc123, seen) /\ InSeen(Id_B, seen)
    /\ \E i \in EventsFor("put", Id_B), j \in EventsFor("put", Id_abc123) :
          /\ i < j
          /\ \E k \in EventsFor("metadata", Id_B) : i < k /\ k < j

(* ------------------------------- C3 ----------------------------------- *)
\* C3: every queued task processes its own album.  A task created for an
\* identifier calls download_album with that identifier, and at the end of
\* the run every identifier a task was created for has been taken up.
C3_EachTaskItsOwnAlbum ==
    /\ \A i \in Events("call") : log[i].id # None => log[i].id = log[i].arg
    /\ status = "returned" => \A i \in Events("put") : InSeen(log[i].id, seen)

(* ------------------------------- C4 ----------------------------------- *)
\* C4: every album-level fetch failure is a skip.  Right after a metadata
\* or image-listing request failed, with a failure envelope or with a
\* transport error, no exception has reached Processor.start and the
\* driver is between two tasks.
C4_FetchFailureIsSkip ==
    (/\ Len(log) > 0
     /\ Last.op \in {"metadata", "images"}
     /\ Last.arg # OkEnvelope)
    => (status # "raised" /\ pc = "idle")

(* ------------------------------- C5 ----------------------------------- *)
\* an answer whose status is not 200 or whose success flag is false
IsFailureEnvelope(res) ==
    Len(res) = 2 /\ (res[1] # "200" \/ res[2] = "false")

\* the task that got a success envelope for its metadata at log position i
\* went on to its image-listing request, and when that succeeded, to its end
RanToCompletion(i) ==
    LET later == {j \in Events("images") : j > i}
    IN  /\ later # {}
        /\ log[Min(later)].arg = OkEnvelope =>
              \E d \in EventsFor("done", log[i].id) : d > Min(later)

\* C5: failure isolation on a failure envelope.  An album whose metadata
\* request is answered with a failure envelope gets no directory and no
\* file, the driver goes on with the next task, and at the end of the run
\* every queued task was executed and every album whose requests succeeded
\* was processed to its end.
C5_EnvelopeFailureIsolated ==
    /\ \A i \in Events("metadata") :
          IsFailureEnvelope(log[i].arg) =>
             /\ EventsFor("mkdir", log[i].id) = {}
             /\ EventsFor("write", log[i].id) = {}
             /\ i < Len(log) => log[i + 1].op = "call"
             /\ i = Len(log) => (status # "raised" /\ pc = "idle" /\ cur = NoCall)
    /\ status = "returned" =>
          /\ Cardinality(Events("call")) = Cardinality(Events("put")) + 1
          /\ \A i \in Events("metadata") : log[i].arg = OkEnvelope => RanToCompletion(i)

\* In one run the queue held the missing album D ahead of the valid album C,
\* and later the valid album E ahead of the missing album zzz; D and zzz got
\* a failure envelope, C and E were processed to their end.
C5_Witness ==
    /\ status = "returned"
    /\ \E pD \in EventsFor("put", Id_D), pC \in EventsFor("put", Id_C),
          mD \in EventsFor("metadata", Id_D), dC \in EventsFor("done", Id_C) :
          /\ pD < pC /\ pC < mD /\ mD < dC
          /\ log[mD].arg = Envelope("404", "false")
    /\ \E pE \in EventsFor("put", Id_E), pZ \in EventsFor("put", Id_zzz),
          dE \in EventsFor("done", Id_E), mZ \in EventsFor("metadata", Id_zzz) :
          /\ pE < pZ /\ pZ < dE /\ dE < mZ
          /\ log[pZ].arg = Id_zzz
          /\ log[mZ].arg = Envelope("200", "false")

(* ------------------------------- C6 ----------------------------------- *)
EndsWith(s, tail) ==
    Len(s) >= Len(tail) /\ SubSeq(s, Len(s) - Len(tail) + 1, Len(s)) = tail

\* a per-image text file: NNNN-slug.txt
IsSidecar(name) == EndsWith(name, <<".">> \o S_txt) /\ name # S_album_metadata_txt

\* the writes the task of album key made of a file called name
WritesOf(key, name) ==
    {w \in EventsFor("write", key) : Basename(log[w].arg) = name}

\* C6: mode exclusivity.  For every album processed to its end: with
\* structured output no per-image .txt file was written and index.xml and
\* archive.xsl were written exactly once each; without it neither index.xml
\* nor archive.xsl was written.
C6_ModeExclusive ==
    \A d \in Events("done") :
        LET key == log[d].id
        IN  IF G.xml
            THEN /\ \A w \in EventsFor("write", key) : ~IsSidecar(Basename(log[w].arg))
                 /\ Cardinality(WritesOf(key, S_index_xml)) = 1
                 /\ Cardinality(WritesOf(key, S_archive_xsl)) = 1
            ELSE /\ WritesOf(key, S_index_xml) = {}
                 /\ WritesOf(key, S_archive_xsl) = {}

\* With structured output, album abc123 was processed to its end, and its
\* first image, which has a description, was saved.
C6_Witness ==
    /\ G.xml
    /\ EventsFor("done", Id_abc123) # {}
    /\ \E s \in EventsFor("save_image", I_p1), d \in EventsFor("done", Id_abc123) : s < d

(* ------------------------------- C7 ----------------------------------- *)
DigitValue(c) ==
    CASE c = "0" -> 0 [] c = "1" -> 1 [] c = "2" -> 2 [] c = "3" -> 3
      [] c = "4" -> 4 [] c = "5" -> 5 [] c = "6" -> 6 [] c = "7" -> 7
      [] c = "8" -> 8 [] c = "9" -> 9 [] OTHER -> -1000000

\* int(s) for a string of decimal digits
RECURSIVE NumberOf(_)
NumberOf(s) ==
    IF s = << >> THEN 0
    ELSE 10 * NumberOf(SubSeq(s, 1, Len(s) - 1)) + DigitValue(s[Len(s)])

IsSaveImage(e) == e.op = "save_image"

\* the save_image calls made between log positions from and to, in order
SaveImageCalls(from, to) == SelectSeq(SubSeq(log, from + 1, to - 1), IsSaveImage)

\* the image-listing request of the task that ended at log position d
ListingBefore(d) ==
    CHOOSE j \in Events("images") :
        j < d /\ \A k \in Events("images") : k < d => k <= j

\* C7: order preservation.  While a listing is worked through, the files made
\* so far are those of its first entries, in listing order, and the file of
\* the entry at position k starts with k as four digits and a dash; when the
\* album is done, save_image was called once per entry of the listing, in
\* listing order, with positions 0 .. N-1.  Both output modes.
C7_OrderPreserved ==
    /\ pc = "save_image" =>
          /\ Len(cur.entries) = cur.idx
          /\ cur.idx <= Len(cur.data)
          /\ \A i \in 1..Len(cur.entries) :
                /\ cur.entries[i].id = cur.data[i].id
                /\ Len(cur.entries[i].filename) > 5
                /\ NumberOf(SubSeq(cur.entries[i].filename, 1, 4)) = i - 1
                /\ cur.entries[i].filename[5] = "-"
    /\ \A d \in Events("done") :
          LET j       == ListingBefore(d)
              listing == RemoteImages(log[j].id)
              calls   == SaveImageCalls(j, d)
          IN  /\ Len(calls) = Len(listing)
              /\ \A k \in 1..Len(calls) :
                    /\ calls[k].id = listing[k].id
                    /\ Len(calls[k].arg) = 4
                    /\ NumberOf(calls[k].arg) = k - 1

\* A listing of two images has been worked through.
C7_Witness ==
    /\ pc = "save_image"
    /\ Len(cur.data) = 2
    /\ cur.idx = 2
    /\ Len(cur.entries) = 2

(* ------------------------------- C8 ----------------------------------- *)
\* the host of an url: what stands between :// and the next slash
HostOf(url) ==
    LET begin == Find(url, S_scheme_sep, 1) + Len(S_scheme_sep)
        slash == Find(url, <<"/">>, begin)
    IN  SubSeq(url, begin, IF slash = 0 THEN Len(url) ELSE slash - 1)

OnImageHost(url) ==
    HostOf(url) = S_imgur \/ EndsWith(HostOf(url), <<".">> \o S_imgur)

\* the identifiers of the urls, in any description, that are on the image host
HostedIds ==
    LET urls == UNION {Range(URLS_REGEX(text)) : text \in Descriptions \ {None}}
    IN  {get_album_id(u) : u \in {v \in urls : OnImageHost(v)}} \ {None, << >>}

\* C8: scanner filtering.  A task is queued only for an url that resolves to
\* an album identifier, and no url that is not on the image host does; the
\* text with one album url for abc123 and one foreign url gives exactly one
\* task, for abc123.
C8_ScannerFilters ==
    /\ FoundIn[D_example] = {<<Id_abc123>>}
    /\ \A i \in Events("put") : log[i].id \in HostedIds

(* ------------------------------- C9 ----------------------------------- *)
\* C9: an image download failure is not caught.  The step in which download
\* raises ends the run with that exception and leaves the queue as it was,
\* and once the run has ended no further step is taken, so the tasks still
\* queued are never executed.
C9_DownloadFailureAborts ==
    [][/\ status = "running"
       /\ (/\ Len(log') > 0
           /\ log'[Len(log')].op = "download"
           /\ log'[Len(log')].arg = <<"error">>)
          => (status' = "raised" /\ exc' = "download" /\ queue' = queue)]_vars

\* A download raised while tasks were still queued.
C9_Witness ==
    /\ status = "raised"
    /\ exc = "download"
    /\ queue # << >>
    /\ Last.op = "download"

(* ------------------------------- C10 ---------------------------------- *)
\* C10: caller contract fault.  When download_album is entered with neither
\* an url nor an album, the step raises ValueError and changes neither the
\* seen list nor the queue, makes no request and writes no file.
C10_CallerContractFault ==
    [][(pc = "entry" /\ ~Truthy(cur.url) /\ ~Truthy(cur.album))
          => (/\ status' = "raised"
              /\ exc' = "ValueError"
              /\ UNCHANGED <<seen, queue, files, log>>)]_vars

\* The task for an empty url raised ValueError; nothing was recorded,
\* requested or written.
C10_Witness ==
    /\ status = "raised"
    /\ exc = "ValueError"
    /\ seen = << >>
    /\ files = {}
    /\ Events("metadata") = {}
    /\ Events("call") # {}

(* ------------------------------- C11 ---------------------------------- *)
\* the last path segment of the entry's source url
LastSegment(info) == SplitLast(info.link, <<"/">>)

\* the suffix the naming rule asks for: the url's trailing extension when it
\* has one, the MIME subtype otherwise, and jpg for jpeg
ExpectedSuffix(info) ==
    LET segment == LastSegment(info)
        named   == IF Contains(segment, <<".">>) /\ SplitLast(segment, <<".">>) # << >>
                   THEN SplitLast(segment, <<".">>)
                   ELSE SplitLast(info.type, <<"/">>)
    IN  IF named = S_jpeg THEN S_jpg ELSE named

\* C11: filename suffix selection.  The file of every image entry saved so
\* far ends in the url's trailing extension when the url has one and in the
\* MIME subtype only otherwise, with jpeg turned into jpg.
C11_SuffixFromUrl ==
    pc = "save_image" =>
        \A i \in 1..Len(cur.entries) :
            SplitLast(cur.entries[i].filename, <<".">>) = ExpectedSuffix(cur.data[i])

(* ------------------------------- C12 ---------------------------------- *)
\* C12: the album identifier is fixed for one task.  From the image-listing
\* request on, the variable album, which names the listing endpoint and is
\* written as the album id to album-metadata.txt or index.xml, still holds
\* the identifier that was put in seen and whose metadata was fetched.
C12_AlbumFixed ==
    /\ pc \in {"images", "save_image"} => cur.album = cur.key
    /\ \A j \in Events("images") :
          \E i \in Events("seen") :
             /\ i < j
             /\ \A k \in Events("seen") : k < j => k <= i
             /\ log[j].id = log[i].id

(* ------------------------------- C13 ---------------------------------- *)
IsPrefix(s, t) == Len(s) <= Len(t) /\ SubSeq(t, 1, Len(s)) = s

\* C13: Seen-Set invariant.  seen never holds an identifier twice, every
\* identifier a metadata request was made for was put in seen before that
\* request, and a step only ever appends to seen.
C13_SeenSet ==
    /\ [](/\ \A i, j \in 1..Len(seen) : seen[i] = seen[j] => i = j
          /\ \A m \in Events("metadata") :
                /\ InSeen(log[m].id, seen)
                /\ \E s \in EventsFor("seen", log[m].id) : s < m)
    /\ [][IsPrefix(seen, seen')]_vars

\* Three albums are in seen, each with its metadata requested, and a task
\* for an album already in seen was called.
C13_Witness ==
    /\ Len(seen) >= 3
    /\ Cardinality(Events("metadata")) >= 3
    /\ \E i, j \in Events("call") : i < j /\ log[i].id # None /\ log[i].id = log[j].id

(* ------------------------------- C14 ---------------------------------- *)
\* C14: resolving.  A task given an url goes on to the dedup check and the
\* metadata request only with an identifier: when get_album_id finds no
\* match for the url, nothing is put in seen and no metadata is requested.
C14_UnresolvedUrlStops ==
    (Truthy(G.url) /\ get_album_id(G.url) = None) =>
        /\ seen = << >>
        /\ Events("metadata") = {}

(* ------------------------------- C15 ---------------------------------- *)
IsPut(e) == e.op = "put"

\* the identifiers of the tasks put between log positions from and to
PutIdsBetween(from, to) ==
    LET puts == SelectSeq(SubSeq(log, from + 1, to - 1), IsPut)
    IN  [k \in 1..Len(puts) |-> puts[k].id]

\* the metadata request of the task whose listing request is at position j
MetadataBefore(j) ==
    CHOOSE m \in Events("metadata") :
        m < j /\ \A k \in Events("metadata") : k < j => k <= m

\* the lists of albums a scan of album a's own description can give
AlbumsOfDescription(a) ==
    LET text == RemoteMeta(a).description
    IN  IF G.find_albums /\ Truthy(text) THEN FoundIn[text] ELSE {<< >>}

\* C15: album-description recursion.  At every image-listing request,
\* whether it succeeds or fails, the tasks put since the album's metadata
\* arrived are those of one scan of the album's own description; after a
\* failed metadata request nothing is put.
C15_AlbumRecursion ==
    /\ \A j \in Events("images") :
          LET m == MetadataBefore(j)
          IN  /\ log[m].arg = OkEnvelope
              /\ PutIdsBetween(m, j) \in AlbumsOfDescription(log[m].id)
    /\ \A m \in Events("metadata") :
          (log[m].arg # OkEnvelope /\ m < Len(log)) => log[m + 1].op # "put"

\* The listing request of album abc123's task failed after the two albums of
\* its description were queued.
C15_Witness ==
    \E m \in EventsFor("metadata", Id_abc123), j \in Events("images") :
        /\ m < j
        /\ MetadataBefore(j) = m
        /\ log[j].arg # OkEnvelope
        /\ Len(PutIdsBetween(m, j)) = 2

(* ------------------------------- C16 ---------------------------------- *)
\* C16: no recursion, no new task.  With recursive discovery disabled no
\* task is ever put: the queue holds at most the seed task, at most one
\* identifier is in seen, and a run that returns made exactly one
\* download_album call.
C16_NoRecursionNoTasks ==
    ~G.find_albums =>
        /\ Events("put") = {}
        /\ Len(queue) <= 1
        /\ queue # << >> => queue[1].url = G.url
        /\ Len(seen) <= 1
        /\ Cardinality(Events("call")) <= 1
        /\ status = "returned" => Cardinality(Events("call")) = 1

\* Without recursion the run returned after saving an image whose
\* description holds an album url.
C16_Witness ==
    /\ ~G.find_albums
    /\ status = "returned"
    /\ EventsFor("save_image", I_p1) # {}
    /\ EventsFor("done", Id_abc123) # {}

(* ------------------------------- C18 ---------------------------------- *)
\* C18 as stated: discrete-mode serialization comes last.  Without
\* structured output, album-metadata.txt is written only after the album's
\* image listing was fetched successfully.
C18_MetadataFileLast ==
    ~G.xml =>
        \A w \in Events("write") :
            Basename(log[w].arg) = S_album_metadata_txt =>
                \E j \in Events("images") :
                    /\ j < w
                    /\ log[j].arg = OkEnvelope
                    /\ log[MetadataBefore(j)].id = log[w].id

\* C18 as amended: without structured output, album-metadata.txt is written
\* exactly once per album whose metadata fetch succeeded, and it is the last
\* thing done before the image-listing request; so an album whose listing
\* fetch fails has its album-metadata.txt all the same.
C18_MetadataFileFirst ==
    ~G.xml =>
        \A j \in Events("images") :
            LET key == log[MetadataBefore(j)].id
            IN  /\ log[j - 1].op = "write"
                /\ log[j - 1].id = key
                /\ Basename(log[j - 1].arg) = S_album_metadata_txt
                /\ MetadataBefore(j) < j - 1
                /\ Cardinality(WritesOf(key, S_album_metadata_txt)) = 1

\* Without structured output a listing request failed, and the file of that
\* album is on disk.
C18_Witness ==
    /\ ~G.xml
    /\ \E j \in Events("images") :
          /\ log[j].arg # OkEnvelope
          /\ log[j - 1].op = "write"
          /\ log[j - 1].arg \in files

(* ------------------------------- C19 ---------------------------------- *)
\* the i-th smallest member of a set of log positions
Nth(S, k) == CHOOSE i \in S : Cardinality({j \in S : j <= i}) = k

\* every task ever put in the queue, in the order of the puts: the task of
\* the url first, then one task per put of the log
AllEnqueued ==
    LET puts == Events("put")
    IN  << Task(G.url, None, get_album_id(G.url)) >> \o
        [k \in 1..Cardinality(puts) |->
            Task(None, log[Nth(puts, k)].arg, log[Nth(puts, k)].id)]

\* the task a call event of the log executed
CalledTask(j) ==
    Task(IF j = Nth(Events("call"), 1) THEN G.url ELSE None, log[j].id, log[j].arg)

\* C19: the work queue is a strict FIFO run to quiescence.  The k-th task
\* executed is the k-th task enqueued, the queue holds exactly the enqueued
\* tasks not yet executed (so none is executed twice or put back), a run
\* that returns has executed every enqueued task, and a task is taken only
\* when no other task is executing.
C19_StrictFifo ==
    /\ [](LET calls == Events("call")
              n == Cardinality(calls)
          IN  /\ n <= Len(AllEnqueued)
              /\ \A k \in 1..n : CalledTask(Nth(calls, k)) = AllEnqueued[k]
              /\ queue = SubSeq(AllEnqueued, n + 1, Len(AllEnqueued))
              /\ (status = "returned" => n = Len(AllEnqueued)))
    /\ [][(Len(log') > Len(log) /\ log'[Len(log')].op = "call")
            => /\ pc = "idle" /\ cur = NoCall
               /\ queue' = Tail(queue)]_vars

\* A run returned after executing at least four tasks, two queued at a time.
C19_Witness ==
    /\ status = "returned"
    /\ Cardinality(Events("call")) >= 4
    /\ \E i, j \in Events("put") : j = i + 1

(* ------------------------------- C20 ---------------------------------- *)
\* the puts of one scan: log positions i..j that hold nothing but puts
OneScan(i, j) == \A k \in i..j : log[k].op = "put"

\* C20: the URL Scanner's output is de-duplicated by identifier.  The tasks
\* one text enqueues are for pairwise different album identifiers, also when
\* the text holds several URLs of the same album.
C20_ScanDedupById ==
    \A i, j \in Events("put") :
        (i < j /\ OneScan(i, j)) => log[i].id # log[j].id

(* ------------------------------- C17 ---------------------------------- *)
\* C17: the crawl is independent of the output mode.  The program is run
\* twice on the same url with the same flags but the other output mode, the
\* environment answering the second run as it answered the first.  All
\* through the second run its crawl (tasks enqueued, identifiers recorded in
\* seen, metadata, listing and download requests, in order) is a beginning
\* of the first run's, the second run can always take its next step, and
\* when it has ended both crawls, both seen lists and both endings are the
\* same.
C17_ModeIndependent ==
    prior.phase = 2 =>
        /\ IsPrefix(Crawl(log), prior.crawl)
        /\ IsPrefix(seen, prior.seen)
        /\ Running => ENABLED TwinNext
        /\ ~Running => /\ Crawl(log) = prior.crawl
                       /\ seen = prior.seen
                       /\ status = prior.status

\* Both runs have ended; they enqueued tasks from an album and from an
\* image, requested three albums and downloaded images, and the two runs
\* left different files.
C17_Witness ==
    /\ prior.phase = 2 /\ ~Running
    /\ Len(prior.seen) >= 3
    /\ Cardinality(Events("put")) >= 3
    /\ Cardinality(Events("download")) >= 2
    /\ \E w \in Events("write") : Basename(log[w].arg) = S_album_metadata_txt


=========================================================================
